---- MODULE Spec2Model ----
(***************************************************************************)
(* Architecture memory store of the goose architecture plugin (store.js):  *)
(* a process-wide graph {systems, people, relationships} loaded from a     *)
(* JSON file when the module is imported and written back, whole, by every *)
(* mutator; and the generate_diagram tool (index.js), which renders the    *)
(* graph as a PlantUML, Mermaid or LikeC4 document. The Twitter plugin     *)
(* (twitter/index.js) is modelled by its tool list per API tier and by how *)
(* its tools turn a thrown error into the string they return.              *)
(*                                                                         *)
(* JavaScript values are modelled as follows.                              *)
(*   - a plain object is the sequence of its own enumerable properties in  *)
(*     the order Object.entries yields them: <<[key, value], ...>>;        *)
(*   - an array is a sequence;                                             *)
(*   - the value undefined (an omitted argument) is the string Undefined;  *)
(*   - a JSON text is a record of its tokens (see JSONstringify);          *)
(*   - a string built by a template is the sequence of its pieces, with    *)
(*     " -- " for the em dash and " -> " for the arrow of the source.      *)
(***************************************************************************)
EXTENDS Integers, Sequences, FiniteSets, TLC

VARIABLES
    store,   \* the module-level `let store` of store.js
    disk,    \* the file at ARCHITECTURE_PATH
    last,    \* the call that was made last, its arguments and its outcome
    origin,  \* what this process started from, and the pairs it added since
    snap,    \* the object the caller got from its last getArchitectureData()
    peer,    \* a second process that imported store.js with the same path
    twitter, \* the Twitter plugin: its TWITTER_API_TIER and exported tools
    ops      \* number of calls made so far (bounded by MaxOps)

vars == <<store, disk, last, origin, snap, peer, twitter, ops>>

(***************************************************************************)
(* Bounds and input domains                                                *)
(***************************************************************************)
MaxOps == 2

Undefined == "<undefined>"

\* Keys are caller-supplied strings; "1" is an integer-like property name.
Keys == {"a", "1"}
Ends == {"a", "b"}
Labels == {"L1", "L2"}
Descriptions == {"", "D1"}
\* `external` as passed by the caller: true, false, or omitted.
ExternalArgs == {"true", "false", Undefined}
\* `description` of addPerson as passed by the caller: a string, or omitted.
PersonDescriptionArgs == Descriptions \cup {Undefined}

Members == {"systems", "people", "relationships"}

(***************************************************************************)
(* JavaScript objects: property order and assignment                       *)
(***************************************************************************)
Digits == <<"0", "1", "2", "3", "4", "5", "6", "7", "8", "9">>

\* An integer-like property name ("array index"): such keys enumerate first,
\* in ascending numeric order, whatever the order of insertion.
IsArrayIndex(k) == \E i \in 1..Len(Digits) : Digits[i] = k

IndexValue(k) == (CHOOSE i \in 1..Len(Digits) : Digits[i] = k) - 1

HasOwn(obj, k) == \E i \in 1..Len(obj) : obj[i].key = k

Get(obj, k) == obj[CHOOSE i \in 1..Len(obj) : obj[i].key = k].value

InsertAt(s, n, e) == SubSeq(s, 1, n) \o <<e>> \o SubSeq(s, n + 1, Len(s))

\* obj[k] = v : an existing property keeps its position and gets the new
\* value; a new property is placed where Object.entries will yield it.
ObjSet(obj, k, v) ==
    IF HasOwn(obj, k)
    THEN [i \in 1..Len(obj) |->
            IF obj[i].key = k THEN [key |-> k, value |-> v] ELSE obj[i]]
    ELSE IF IsArrayIndex(k)
    THEN InsertAt(obj,
                  Cardinality({i \in 1..Len(obj) :
                                 /\ IsArrayIndex(obj[i].key)
                                 /\ IndexValue(obj[i].key) < IndexValue(k)}),
                  [key |-> k, value |-> v])
    ELSE Append(obj, [key |-> k, value |-> v])

\* Boolean(x) for the values a caller passes as `external`.
ToBoolean(x) == x = "true"

\* A parameter default `p = dflt` applies when the argument is undefined.
Default(x, dflt) == IF x = Undefined THEN dflt ELSE x

(***************************************************************************)
(* The store and its file                                                  *)
(***************************************************************************)
emptyStore ==
    [shape |-> "object", has |-> Members,
     systems |-> <<>>, people |-> <<>>, relationships |-> <<>>]

\* The value has the three collections of a graph.
IsGraph(data) == data.shape = "object" /\ data.has = Members

\* Faulty variant: the relationships are written in reverse order.
JSONstringifyReversed(data) ==
    [syntax |-> "json",
     root |-> data.shape,
     has |-> data.has,
     systems |-> [i \in 1..Len(data.systems) |->
        <<data.systems[i].key, data.systems[i].value.label,
          data.systems[i].value.description,
          IF data.systems[i].value.external THEN "true" ELSE "false">>],
     people |-> [i \in 1..Len(data.people) |->
        <<data.people[i].key, data.people[i].value.label,
          data.people[i].value.description>>],
     relationships |-> [i \in 1..Len(data.relationships) |->
        <<data.relationships[Len(data.relationships) + 1 - i].from,
          data.relationships[Len(data.relationships) + 1 - i].to,
          data.relationships[Len(data.relationships) + 1 - i].label>>]]

\* JSON.stringify(data, null, 2): members in property order, a boolean as
\* the literal true / false.
JSONstringify(data) ==
    [syntax |-> "json",
     root |-> data.shape,
     has |-> data.has,
     systems |-> [i \in 1..Len(data.systems) |->
        <<data.systems[i].key, data.systems[i].value.label,
          data.systems[i].value.description,
          IF data.systems[i].value.external THEN "true" ELSE "false">>],
     people |-> [i \in 1..Len(data.people) |->
        <<data.people[i].key, data.people[i].value.label,
          data.people[i].value.description>>],
     relationships |-> [i \in 1..Len(data.relationships) |->
        <<data.relationships[i].from, data.relationships[i].to,
          data.relationships[i].label>>]]

\* A text JSON.parse rejects: not JSON at all, or a document cut short.
InvalidText ==
    [syntax |-> "invalid", root |-> "object", has |-> {},
     systems |-> <<>>, people |-> <<>>, relationships |-> <<>>]

RECURSIVE ParseSystems(_, _)
ParseSystems(members, obj) ==
    IF members = <<>> THEN obj
    ELSE ParseSystems(Tail(members),
            ObjSet(obj, Head(members)[1],
                   [label |-> Head(members)[2],
                    description |-> Head(members)[3],
                    external |-> Head(members)[4] = "true"]))

RECURSIVE ParsePeople(_, _)
ParsePeople(members, obj) ==
    IF members = <<>> THEN obj
    ELSE ParsePeople(Tail(members),
            ObjSet(obj, Head(members)[1],
                   [label |-> Head(members)[2],
                    description |-> Head(members)[3]]))

\* JSON.parse(text) of a text that parses: whatever value the text denotes,
\* a graph or not.
JSONparse(text) ==
    [shape |-> text.root,
     has |-> text.has,
     systems |-> ParseSystems(text.systems, <<>>),
     people |-> ParsePeople(text.people, <<>>),
     relationships |-> [i \in 1..Len(text.relationships) |->
        [from |-> text.relationships[i][1],
         to |-> text.relationships[i][2],
         label |-> text.relationships[i][3]]]]

Missing == [kind |-> "missing", text |-> InvalidText]
Unreadable == [kind |-> "unreadable", text |-> InvalidText]
File(text) == [kind |-> "file", text |-> text]

\* load(): readFileSync or JSON.parse throwing yields emptyStore(); a text
\* that parses is returned as parsed.
load(d) ==
    IF d.kind = "file" /\ d.text.syntax = "json"
    THEN JSONparse(d.text)
    ELSE emptyStore

RECURSIVE Assign(_, _)
\* Object.assign(obj, entries)
Assign(obj, entries) ==
    IF entries = <<>> THEN obj
    ELSE Assign(ObjSet(obj, Head(entries).key, Head(entries).value),
                Tail(entries))

\* Faulty variant: a write keeps the systems and people that are in the file
\* and not in memory (read, merge, write).
saveMerging(data, d, outcome) ==
    CASE outcome = "ok" ->
            File(JSONstringify(
                [data EXCEPT
                    !.systems = Assign(load(d).systems, data.systems),
                    !.people = Assign(load(d).people, data.people)]))
      [] outcome = "write_truncated" -> File(InvalidText)
      [] OTHER -> d

\* Faulty variant: a write that failed is repeated until the file is written.
saveRetrying(data, d, outcome) ==
    CASE outcome = "ok" -> File(JSONstringify(data))
      [] OTHER -> File(JSONstringify(data))

\* Faulty variant: a write adds the newest entry of each collection to what
\* the file holds (a delta) instead of writing the graph in memory.
saveDelta(data, d, outcome) ==
    LET Newest(seq) == IF seq = <<>> THEN <<>> ELSE <<seq[Len(seq)]>>
    IN  CASE outcome = "ok" ->
                File(JSONstringify(
                    [data EXCEPT
                        !.systems =
                            Assign(load(d).systems, Newest(data.systems)),
                        !.people =
                            Assign(load(d).people, Newest(data.people)),
                        !.relationships =
                            load(d).relationships \o
                            Newest(data.relationships)]))
          [] outcome = "write_truncated" -> File(InvalidText)
          [] OTHER -> d

\* How one save() can end: written; mkdirSync throws; writeFileSync throws
\* before the file is opened; writeFileSync throws after the file was
\* truncated and before all of the text was written.
SaveOutcomes == {"ok", "mkdir_failed", "write_denied", "write_truncated"}

save(data, d, outcome) ==
    CASE outcome = "ok" -> File(JSONstringify(data))
      [] outcome = "write_truncated" -> File(InvalidText)
      [] OTHER -> d

\* mkdirSync(dirname, {recursive: true}) can only throw when the directory
\* is not there yet, that is, when the file is not there either. A path the
\* process cannot read (a directory in its place, no access rights) is one
\* it cannot open for writing either.
CanEnd(d, outcome) ==
    /\ outcome \in SaveOutcomes
    /\ outcome = "mkdir_failed" => d.kind = "missing"
    /\ d.kind = "unreadable" => outcome = "write_denied"

(***************************************************************************)
(* Documents the file can hold when a process starts                       *)
(***************************************************************************)
SeedStore ==
    [shape |-> "object", has |-> Members,
     systems |-> <<[key |-> "a",
                    value |-> [label |-> "L1", description |-> "D1",
                               external |-> FALSE]]>>,
     people |-> <<[key |-> "a",
                   value |-> [label |-> "L1", description |-> "D1"]]>>,
     relationships |-> <<[from |-> "a", to |-> "b", label |-> "L1"],
                         [from |-> "b", to |-> "a", label |-> "L1"]>>]

NullDocument == [InvalidText EXCEPT !.syntax = "json", !.root = "null"]
EmptyObjectDocument == [InvalidText EXCEPT !.syntax = "json"]

InitialDisks ==
    {Missing, Unreadable, File(InvalidText), File(NullDocument),
     File(EmptyObjectDocument), File(JSONstringify(SeedStore))}

(***************************************************************************)
(* What is recorded of a call                                              *)
(***************************************************************************)
Pair(r) == <<r.from, r.to>>

NoPairs == [p \in Ends \X Ends |-> Undefined]

\* What a process started from, the label of the last addRelationship per
\* pair, how its last save() ended, and whether one of its saves has failed.
Started(data) ==
    [empty |-> data = emptyStore, added |-> NoPairs, saved |-> "none",
     failed |-> FALSE]

Call(op, args, outcome, result) ==
    [op |-> op, args |-> args, save |-> outcome, result |-> result]

Returned(value) == [threw |-> FALSE, value |-> value]
Threw == [threw |-> TRUE, value |-> "TypeError"]

(***************************************************************************)
(* Readers                                                                 *)
(***************************************************************************)
\* Which objects of a returned snapshot are the store's own objects: a
\* container ("systems") or the entries in it ("systems[]").
Places == {"systems", "people", "relationships",
           "systems[]", "people[]", "relationships[]"}

NoSnapshot ==
    [held |-> FALSE, systems |-> <<>>, people |-> <<>>,
     relationships |-> <<>>, shared |-> {}]

\* Faulty variant: the entries are copied by reference ([k, v] and r in
\* place of [k, {...v}] and {...r}), so they are the store's own objects.
getArchitectureDataShallow(data) ==
    [held |-> TRUE,
     systems |-> data.systems,
     people |-> data.people,
     relationships |-> data.relationships,
     shared |-> {"systems[]", "people[]", "relationships[]"}]

\* Faulty variant: the file is read again and its graph is what is returned.
getArchitectureDataReloading(data) ==
    [held |-> TRUE,
     systems |-> load(disk).systems,
     people |-> load(disk).people,
     relationships |-> load(disk).relationships,
     shared |-> {}]

\* getArchitectureData(): Object.fromEntries and map build new containers,
\* the spreads {...v} and {...r} build a new object per entry, and the
\* fields of an entry are primitives; nothing returned is an object of the
\* store.
getArchitectureData(data) ==
    [held |-> TRUE,
     systems |-> [i \in 1..Len(data.systems) |->
        [key |-> data.systems[i].key,
         value |-> [label |-> data.systems[i].value.label,
                    description |-> data.systems[i].value.description,
                    external |-> data.systems[i].value.external]]],
     people |-> [i \in 1..Len(data.people) |->
        [key |-> data.people[i].key,
         value |-> [label |-> data.people[i].value.label,
                    description |-> data.people[i].value.description]]],
     relationships |-> [i \in 1..Len(data.relationships) |->
        [from |-> data.relationships[i].from,
         to |-> data.relationships[i].to,
         label |-> data.relationships[i].label]],
     shared |-> {}]

\* The graph a snapshot shows, without the bookkeeping of who owns it.
Graph(s) ==
    [systems |-> s.systems, people |-> s.people,
     relationships |-> s.relationships]

RECURSIVE Join(_, _)
\* parts.join(sep), as the sequence of the pieces.
Join(parts, sep) ==
    IF parts = <<>> THEN <<>>
    ELSE IF Len(parts) = 1 THEN parts[1]
    ELSE parts[1] \o <<sep>> \o Join(Tail(parts), sep)

\* Faulty variant: the description segment of a system is left out when the
\* description is empty, as it is for a person.
SystemTextOmittingEmpty(s) ==
    <<s.label, " (", IF s.external THEN "external" ELSE "internal", ")">>
    \o (IF s.description # "" THEN <<" -- ", s.description>> ELSE <<>>)

SystemText(s) ==
    <<s.label, " (", IF s.external THEN "external" ELSE "internal", ") -- ",
      s.description>>

PersonText(p) ==
    <<p.label>> \o (IF p.description # "" THEN <<" -- ", p.description>>
                    ELSE <<>>)

RelationshipText(r) == <<r.from, " -> ", r.to, " \"", r.label, "\"">>

Null == [null |-> TRUE, lines |-> <<>>]

\* The line of one section: its title, then its entries joined by ' | '.
SystemsLine(data) ==
    <<"Systems: ">> \o
    Join([i \in 1..Len(data.systems) |-> SystemText(data.systems[i].value)],
         " | ")

PeopleLine(data) ==
    <<"People: ">> \o
    Join([i \in 1..Len(data.people) |-> PersonText(data.people[i].value)],
         " | ")

RelationshipsLine(data) ==
    <<"Relationships: ">> \o
    Join([i \in 1..Len(data.relationships) |->
            RelationshipText(data.relationships[i])], " | ")

\* Faulty variant: the emptiness test forgets the relationships.
getArchitectureAsTextNoRelationshipTest(data) ==
    IF /\ Len(data.systems) = 0
       /\ Len(data.people) = 0
    THEN Null
    ELSE [null |-> FALSE,
          lines |->
            (IF Len(data.systems) # 0 THEN <<SystemsLine(data)>> ELSE <<>>)
            \o
            (IF Len(data.people) # 0 THEN <<PeopleLine(data)>> ELSE <<>>)
            \o
            (IF Len(data.relationships) # 0
             THEN <<RelationshipsLine(data)>> ELSE <<>>)]

\* Faulty variant: the people section is pushed before the systems section.
getArchitectureAsTextPeopleFirst(data) ==
    IF /\ Len(data.systems) = 0
       /\ Len(data.people) = 0
       /\ Len(data.relationships) = 0
    THEN Null
    ELSE [null |-> FALSE,
          lines |->
            (IF Len(data.people) # 0 THEN <<PeopleLine(data)>> ELSE <<>>)
            \o
            (IF Len(data.systems) # 0 THEN <<SystemsLine(data)>> ELSE <<>>)
            \o
            (IF Len(data.relationships) # 0
             THEN <<RelationshipsLine(data)>> ELSE <<>>)]

\* getArchitectureAsText() on a graph: null when all three collections are
\* empty, else one line per collection that is not.
getArchitectureAsText(data) ==
    IF /\ Len(data.systems) = 0
       /\ Len(data.people) = 0
       /\ Len(data.relationships) = 0
    THEN Null
    ELSE [null |-> FALSE,
          lines |->
            (IF Len(data.systems) # 0 THEN <<SystemsLine(data)>> ELSE <<>>)
            \o
            (IF Len(data.people) # 0 THEN <<PeopleLine(data)>> ELSE <<>>)
            \o
            (IF Len(data.relationships) # 0
             THEN <<RelationshipsLine(data)>> ELSE <<>>)]

\* Object.entries(undefined), and a property of null or undefined, throw a
\* TypeError; the readers have no try block.
GetArchitectureData ==
    /\ ops < MaxOps
    /\ IF IsGraph(store)
       THEN /\ snap' = getArchitectureData(store)
            /\ last' = Call("getArchitectureData", <<>>, "not_attempted",
                            Returned("snapshot"))
       ELSE /\ last' = Call("getArchitectureData", <<>>, "not_attempted",
                            Threw)
            /\ UNCHANGED snap
    /\ ops' = ops + 1
    /\ UNCHANGED <<store, disk, origin, peer, twitter>>

GetArchitectureAsText ==
    /\ ops < MaxOps
    /\ last' = Call("getArchitectureAsText", <<>>, "not_attempted",
                    IF IsGraph(store)
                    THEN Returned(getArchitectureAsText(store))
                    ELSE Threw)
    /\ ops' = ops + 1
    /\ UNCHANGED <<store, disk, origin, snap, peer, twitter>>

(***************************************************************************)
(* Diagram renderers (index.js).  A document is a sequence of lines, the   *)
(* lines that the code joins with '\n'; a line is the sequence of the      *)
(* pieces of its template literal, the fixed text and the interpolated     *)
(* values in turn.                                                         *)
(***************************************************************************)
RECURSIVE Flatten(_)
\* The lines pushed by a loop, one group of lines per iteration.
Flatten(groups) ==
    IF groups = <<>> THEN <<>> ELSE Head(groups) \o Flatten(Tail(groups))

\* A description that holds a quote character and line breaks: a quote, a
\* line that is a closing brace, a quote.
QuoteBraceText == "'\n  }\n'"

\* A text that holds both quote characters and no line break.
QuoteText == "O'Brien \"Bob\""

\* The quote characters that stand in a text without a backslash before
\* them.
UnescapedQuotes(text) ==
    CASE text = QuoteText -> {"'", "\""}
      [] text = QuoteBraceText -> {"'"}
      [] text = "'" -> {"'"}
      [] OTHER -> {}

\* The lines of a text, the parts between its line breaks.
TextLines(text) ==
    IF text = QuoteBraceText THEN <<"'", "  }", "'">> ELSE <<text>>

RECURSIVE SplitLine(_)
\* The lines that one element of `lines` makes in the joined string: the
\* values are interpolated as they are, so a line break inside a value ends
\* the line there.
SplitLine(line) ==
    IF line = <<>> THEN << <<>> >>
    ELSE LET t == TextLines(Head(line))
             rest == SplitLine(Tail(line))
         IN [i \in 1..(Len(t) - 1) |-> <<t[i]>>]
            \o << <<t[Len(t)]>> \o Head(rest) >>
            \o Tail(rest)

\* lines.join('\n'), as the sequence of the lines of the string it returns.
JoinLines(lines) == Flatten([i \in 1..Len(lines) |-> SplitLine(lines[i])])

PlantUMLHeader ==
    << <<"@startuml">>,
       <<"!include https://raw.githubusercontent.com/plantuml-stdlib/C4-PlantUML/master/C4_Context.puml">>,
       <<"">>,
       <<"title System Context Diagram">>,
       <<"">> >>

PlantUMLFooter == << <<"">>, <<"@enduml">> >>

PlantUMLPerson(key, p) ==
    <<"Person(", key, ", \"", p.label, "\", \"", p.description, "\")">>

\* Faulty variant: every system is declared with System.
PlantUMLSystemNeverExt(key, s) ==
    <<"System(", key, ", \"", s.label, "\", \"", s.description, "\")">>

PlantUMLSystem(key, s) ==
    <<IF s.external THEN "System_Ext(" ELSE "System(",
      key, ", \"", s.label, "\", \"", s.description, "\")">>

PlantUMLRel(r) == <<"Rel(", r.from, ", ", r.to, ", \"", r.label, "\")">>

\* Faulty variant: the blank line before the relationships is pushed even
\* when there is no relationship.
generatePlantUMLUnguardedSeparator(systems, people, relationships) ==
    JoinLines(
        PlantUMLHeader
        \o [i \in 1..Len(people) |-> PlantUMLPerson(people[i].key, people[i].value)]
        \o [i \in 1..Len(systems) |->
              PlantUMLSystem(systems[i].key, systems[i].value)]
        \o << <<"">> >>
        \o [i \in 1..Len(relationships) |-> PlantUMLRel(relationships[i])]
        \o PlantUMLFooter)

generatePlantUML(systems, people, relationships) ==
    JoinLines(
        PlantUMLHeader
        \o [i \in 1..Len(people) |-> PlantUMLPerson(people[i].key, people[i].value)]
        \o [i \in 1..Len(systems) |->
              PlantUMLSystem(systems[i].key, systems[i].value)]
        \o (IF Len(relationships) # 0
            THEN << <<"">> >>
                 \o [i \in 1..Len(relationships) |-> PlantUMLRel(relationships[i])]
            ELSE <<>>)
        \o PlantUMLFooter)

MermaidHeader == << <<"C4Context">> >>

MermaidPerson(key, p) ==
    <<"  Person(", key, ", \"", p.label, "\", \"", p.description, "\")">>

MermaidSystem(key, s) ==
    <<IF s.external THEN "  System_Ext(" ELSE "  System(",
      key, ", \"", s.label, "\", \"", s.description, "\")">>

MermaidRel(r) == <<"  Rel(", r.from, ", ", r.to, ", \"", r.label, "\")">>

\* Faulty variant: the last relationship is not rendered.
generateMermaidDroppingLast(systems, people, relationships) ==
    JoinLines(
        MermaidHeader
        \o [i \in 1..Len(people) |-> MermaidPerson(people[i].key, people[i].value)]
        \o [i \in 1..Len(systems) |->
              MermaidSystem(systems[i].key, systems[i].value)]
        \o [i \in 1..(Len(relationships) - 1) |-> MermaidRel(relationships[i])])

generateMermaid(systems, people, relationships) ==
    JoinLines(
        MermaidHeader
        \o [i \in 1..Len(people) |-> MermaidPerson(people[i].key, people[i].value)]
        \o [i \in 1..Len(systems) |->
              MermaidSystem(systems[i].key, systems[i].value)]
        \o [i \in 1..Len(relationships) |-> MermaidRel(relationships[i])])

LikeC4Header ==
    << <<"specification {">>,
       <<"  element system">>,
       <<"  element person">>,
       <<"}">>,
       <<"">>,
       <<"model {">> >>

LikeC4Footer ==
    << <<"}">>,
       <<"">>,
       <<"views {">>,
       <<"  view index {">>,
       <<"    include *">>,
       <<"  }">>,
       <<"}">> >>

\* The three lines of a person's block.
LikeC4Person(key, p) ==
    << <<"  person ", key, " '", p.label, "' {">>,
       <<"    description '", p.description, "'">>,
       <<"  }">> >>

\* The lines of a system's block, with the tag line when it is external.
LikeC4System(key, s) ==
    << <<"  system ", key, " '", s.label, "' {">>,
       <<"    description '", s.description, "'">> >>
    \o (IF s.external THEN << <<"    tag external">> >> ELSE <<>>)
    \o << <<"  }">> >>

LikeC4Rel(r) == <<"  ", r.from, " -> ", r.to, " '", r.label, "'">>

generateLikeC4(systems, people, relationships) ==
    JoinLines(
        LikeC4Header
        \o Flatten([i \in 1..Len(people) |->
                      LikeC4Person(people[i].key, people[i].value)])
        \o Flatten([i \in 1..Len(systems) |->
                      LikeC4System(systems[i].key, systems[i].value)])
        \o [i \in 1..Len(relationships) |-> LikeC4Rel(relationships[i])]
        \o LikeC4Footer)

\* The arguments of generate_diagram.execute: no argument object at all
\* (<<>>), or an object whose format is the one element, Undefined when the
\* object has no format.
FormatEnum == {"plantuml", "mermaid", "likec4"}
Formats == FormatEnum \cup {"svg", "Mermaid", Undefined}
Arguments == {<<>>} \cup {<<f>> : f \in Formats}

\* ({ format = 'plantuml' } = {}) : the format the body sees.
FormatOf(args) ==
    IF args = <<>> THEN Default(Undefined, "plantuml")
    ELSE Default(args[1], "plantuml")

\* The message of the TypeError that getArchitectureData() throws on a store
\* that is not a graph.
ErrorMessage(data) ==
    IF data.shape # "object"
    THEN "Cannot read properties of null (reading 'systems')"
    ELSE IF {"systems", "people"} \subseteq data.has
    THEN "Cannot read properties of undefined (reading 'map')"
    ELSE "Cannot convert undefined or null to object"

\* Faulty variant: a format that is not recognised is rendered as Mermaid.
generate_diagramFallbackMermaid(args, data) ==
    IF IsGraph(data)
    THEN LET format == FormatOf(args)
             d == getArchitectureData(data)
         IN IF format = "plantuml"
            THEN generatePlantUML(d.systems, d.people, d.relationships)
            ELSE IF format = "likec4"
            THEN generateLikeC4(d.systems, d.people, d.relationships)
            ELSE generateMermaid(d.systems, d.people, d.relationships)
    ELSE << <<"Error generating diagram: ", ErrorMessage(data)>> >>

\* How the promise of an async function settles: a value the body returns
\* resolves it, an exception that leaves the body rejects it.
Resolved(value) == [settled |-> "resolved", value |-> value]
Rejected == [settled |-> "rejected", value |-> "TypeError"]
Async(body) == IF body.threw THEN Rejected ELSE Resolved(body.value)

\* remember_system / remember_person / remember_relationship .execute, given
\* how the add* call inside `try { ... } catch {}` ended: 'Noted.' either way.
remember(core) ==
    Async(IF core.threw THEN Returned("Noted.") ELSE Returned("Noted."))

\* generate_diagram.execute(args) on the store `data`.
generate_diagram(args, data) ==
    IF IsGraph(data)
    THEN LET format == FormatOf(args)
             d == getArchitectureData(data)
         IN IF format = "mermaid"
            THEN generateMermaid(d.systems, d.people, d.relationships)
            ELSE IF format = "likec4"
            THEN generateLikeC4(d.systems, d.people, d.relationships)
            ELSE generatePlantUML(d.systems, d.people, d.relationships)
    ELSE << <<"Error generating diagram: ", ErrorMessage(data)>> >>

\* Faulty variant: no try / catch around the body, so the TypeError of
\* getArchitectureData() on a store that is not a graph leaves it.
generate_diagramExecuteUncaught(args, data) ==
    Async(IF IsGraph(data) THEN Returned(generate_diagram(args, data))
          ELSE Threw)

\* The promise generate_diagram.execute(args) returns: the body returns a
\* string on both paths of its try / catch.
generate_diagramExecute(args, data) ==
    Async(Returned(generate_diagram(args, data)))

\* Faulty variant: the tool writes the store to the file after rendering.
GenerateDiagramSaving(args) ==
    /\ ops < MaxOps
    /\ last' = Call("generate_diagram", args, "not_attempted",
                    Returned(generate_diagram(args, store)))
    /\ disk' = IF disk.kind = "unreadable" THEN disk
               ELSE save(store, disk, "ok")
    /\ ops' = ops + 1
    /\ UNCHANGED <<store, origin, snap, peer, twitter>>

GenerateDiagram(args) ==
    /\ ops < MaxOps
    /\ last' = Call("generate_diagram", args, "not_attempted",
                    Returned(generate_diagram(args, store)))
    /\ ops' = ops + 1
    /\ UNCHANGED <<store, disk, origin, snap, peer, twitter>>

(***************************************************************************)
(* The caller writes to the object getArchitectureData() gave it           *)
(***************************************************************************)
Mutations == {"systems", "people", "relationships",
              "systems[]", "people[]", "relationships[]"}

Relabel(entries) ==
    [i \in 1..Len(entries) |->
        IF i = 1 THEN [entries[i] EXCEPT !.value.label = "MUTATED"]
        ELSE entries[i]]

\* A write to a container empties it (delete of every key, length = 0); a
\* write to an entry sets the label of the first one.
Written(g, place) ==
    CASE place = "systems" -> [g EXCEPT !.systems = <<>>]
      [] place = "people" -> [g EXCEPT !.people = <<>>]
      [] place = "relationships" -> [g EXCEPT !.relationships = <<>>]
      [] place = "systems[]" -> [g EXCEPT !.systems = Relabel(g.systems)]
      [] place = "people[]" -> [g EXCEPT !.people = Relabel(g.people)]
      [] place = "relationships[]" ->
            [g EXCEPT !.relationships =
                [i \in 1..Len(g.relationships) |->
                    IF i = 1
                    THEN [g.relationships[i] EXCEPT !.label = "MUTATED"]
                    ELSE g.relationships[i]]]

Collection(g, place) ==
    CASE place \in {"systems", "systems[]"} -> g.systems
      [] place \in {"people", "people[]"} -> g.people
      [] OTHER -> g.relationships

\* The write reaches the store exactly when the object written to is one of
\* the store's own.
MutateSnapshot(place) ==
    /\ ops < MaxOps
    /\ snap.held
    /\ Collection(snap, place) # <<>>
    /\ snap' = Written(snap, place)
    /\ store' = IF place \in snap.shared /\ Collection(store, place) # <<>>
                THEN Written(store, place)
                ELSE store
    /\ last' = Call("mutateSnapshot", <<place>>, "not_attempted",
                    Returned("undefined"))
    /\ ops' = ops + 1
    /\ UNCHANGED <<disk, origin, peer, twitter>>

(***************************************************************************)
(* Mutators                                                                *)
(***************************************************************************)
\* Faulty variant: a field-level merge, which keeps the description of an
\* entry that is already there.
SetSystemMerging(data, name, label, description, external) ==
    [data EXCEPT !.systems =
        ObjSet(data.systems, name,
               [label |-> label,
                description |-> IF HasOwn(data.systems, name)
                                THEN Get(data.systems, name).description
                                ELSE description,
                external |-> ToBoolean(Default(external, "false"))])]

\* The body of addSystem's try block up to save().
SetSystem(data, name, label, description, external) ==
    [data EXCEPT !.systems =
        ObjSet(data.systems, name,
               [label |-> label, description |-> description,
                external |-> ToBoolean(Default(external, "false"))])]

\* Faulty variant: an omitted description keeps the one already stored.
SetPersonKeeping(data, name, label, description) ==
    [data EXCEPT !.people =
        ObjSet(data.people, name,
               [label |-> label,
                description |->
                    IF description = Undefined /\ HasOwn(data.people, name)
                    THEN Get(data.people, name).description
                    ELSE Default(description, "")])]

\* The body of addPerson's try block up to save().
SetPerson(data, name, label, description) ==
    [data EXCEPT !.people =
        ObjSet(data.people, name,
               [label |-> label,
                description |-> Default(description, "")])]

\* Faulty variant: no filter, the new entry is only appended.
PushRelationshipNoFilter(data, from, to, label) ==
    [data EXCEPT !.relationships =
        Append(data.relationships,
               [from |-> from, to |-> to, label |-> label])]

\* Faulty variant: the label of an existing pair is updated where it stands.
PushRelationshipInPlace(data, from, to, label) ==
    [data EXCEPT !.relationships =
        IF \E i \in 1..Len(data.relationships) :
              Pair(data.relationships[i]) = <<from, to>>
        THEN [i \in 1..Len(data.relationships) |->
                IF Pair(data.relationships[i]) = <<from, to>>
                THEN [from |-> from, to |-> to, label |-> label]
                ELSE data.relationships[i]]
        ELSE Append(data.relationships,
                    [from |-> from, to |-> to, label |-> label])]

\* Faulty variant: the filter also drops the reverse pair.
PushRelationshipUndirected(data, from, to, label) ==
    [data EXCEPT !.relationships =
        Append(SelectSeq(data.relationships,
                         LAMBDA r : ~(\/ (r.from = from /\ r.to = to)
                                      \/ (r.from = to /\ r.to = from))),
               [from |-> from, to |-> to, label |-> label])]

\* Faulty variant: a pair is stored only when both ends are known keys.
PushRelationshipChecked(data, from, to, label) ==
    IF /\ HasOwn(data.systems, from) \/ HasOwn(data.people, from)
       /\ HasOwn(data.systems, to) \/ HasOwn(data.people, to)
    THEN [data EXCEPT !.relationships =
            Append(SelectSeq(data.relationships,
                             LAMBDA r : ~(r.from = from /\ r.to = to)),
                   [from |-> from, to |-> to, label |-> label])]
    ELSE data

\* Faulty variant: the filter drops every relationship that leaves `from`.
PushRelationshipFilterFrom(data, from, to, label) ==
    [data EXCEPT !.relationships =
        Append(SelectSeq(data.relationships, LAMBDA r : r.from # from),
               [from |-> from, to |-> to, label |-> label])]

\* The body of addRelationship's try block up to save().
PushRelationship(data, from, to, label) ==
    [data EXCEPT !.relationships =
        Append(SelectSeq(data.relationships,
                         LAMBDA r : ~(r.from = from /\ r.to = to)),
               [from |-> from, to |-> to, label |-> label])]

\* A mutator on a store whose collection is missing throws a TypeError inside
\* its try block before save() is reached; the catch swallows it.
addSystem(name, label, description, external, outcome) ==
    /\ ops < MaxOps
    /\ IF store.shape = "object" /\ "systems" \in store.has
       THEN /\ CanEnd(disk, outcome)
            /\ store' = SetSystem(store, name, label, description, external)
            /\ disk' = save(store', disk, outcome)
            /\ origin' = [origin EXCEPT !.saved = outcome,
                                         !.failed = @ \/ outcome # "ok"]
       ELSE /\ outcome = "not_attempted"
            /\ UNCHANGED <<store, disk, origin>>
    /\ last' = Call("addSystem", <<name, label, description, external>>,
                    outcome, Returned("undefined"))
    /\ ops' = ops + 1
    /\ UNCHANGED <<snap, peer, twitter>>

addPerson(name, label, description, outcome) ==
    /\ ops < MaxOps
    /\ IF store.shape = "object" /\ "people" \in store.has
       THEN /\ CanEnd(disk, outcome)
            /\ store' = SetPerson(store, name, label, description)
            /\ disk' = save(store', disk, outcome)
            /\ origin' = [origin EXCEPT !.saved = outcome,
                                         !.failed = @ \/ outcome # "ok"]
       ELSE /\ outcome = "not_attempted"
            /\ UNCHANGED <<store, disk, origin>>
    /\ last' = Call("addPerson", <<name, label, description>>,
                    outcome, Returned("undefined"))
    /\ ops' = ops + 1
    /\ UNCHANGED <<snap, peer, twitter>>

addRelationship(from, to, label, outcome) ==
    /\ ops < MaxOps
    /\ IF store.shape = "object" /\ "relationships" \in store.has
       THEN /\ CanEnd(disk, outcome)
            /\ store' = PushRelationship(store, from, to, label)
            /\ disk' = save(store', disk, outcome)
            /\ origin' = [origin EXCEPT !.added[<<from, to>>] = label,
                                         !.saved = outcome,
                                         !.failed = @ \/ outcome # "ok"]
       ELSE /\ outcome = "not_attempted"
            /\ UNCHANGED <<store, disk, origin>>
    /\ last' = Call("addRelationship", <<from, to, label>>,
                    outcome, Returned("undefined"))
    /\ ops' = ops + 1
    /\ UNCHANGED <<snap, peer, twitter>>

\* A fresh process imports store.js: `let store = load()`.
Import ==
    /\ ops < MaxOps
    /\ store' = load(disk)
    /\ origin' = Started(store')
    /\ last' = Call("import", <<>>, "not_attempted", Returned("undefined"))
    /\ snap' = NoSnapshot
    /\ ops' = ops + 1
    /\ UNCHANGED <<disk, peer, twitter>>

(***************************************************************************)
(* A second process on the same file                                       *)
(***************************************************************************)
\* No second process.
NoPeer == [running |-> FALSE, store |-> emptyStore, saved |-> "none"]

\* A second process after its import: its own `let store = load()`.
PeerStarted(d) == [running |-> TRUE, store |-> load(d), saved |-> "none"]

\* The mutators as the second process runs them: the same code on its own
\* store and on the shared file.
PeerAddSystem(name, label, description, external, outcome) ==
    /\ ops < MaxOps
    /\ peer.running
    /\ IF peer.store.shape = "object" /\ "systems" \in peer.store.has
       THEN /\ CanEnd(disk, outcome)
            /\ peer' = [peer EXCEPT
                    !.store = SetSystem(peer.store, name, label, description,
                                        external),
                    !.saved = outcome]
            /\ disk' = save(peer'.store, disk, outcome)
       ELSE /\ outcome = "not_attempted"
            /\ UNCHANGED <<peer, disk>>
    /\ last' = Call("peer.addSystem", <<name, label, description, external>>,
                    outcome, Returned("undefined"))
    /\ ops' = ops + 1
    /\ UNCHANGED <<store, origin, snap, twitter>>

PeerAddPerson(name, label, description, outcome) ==
    /\ ops < MaxOps
    /\ peer.running
    /\ IF peer.store.shape = "object" /\ "people" \in peer.store.has
       THEN /\ CanEnd(disk, outcome)
            /\ peer' = [peer EXCEPT
                    !.store = SetPerson(peer.store, name, label, description),
                    !.saved = outcome]
            /\ disk' = save(peer'.store, disk, outcome)
       ELSE /\ outcome = "not_attempted"
            /\ UNCHANGED <<peer, disk>>
    /\ last' = Call("peer.addPerson", <<name, label, description>>,
                    outcome, Returned("undefined"))
    /\ ops' = ops + 1
    /\ UNCHANGED <<store, origin, snap, twitter>>

PeerAddRelationship(from, to, label, outcome) ==
    /\ ops < MaxOps
    /\ peer.running
    /\ IF peer.store.shape = "object" /\ "relationships" \in peer.store.has
       THEN /\ CanEnd(disk, outcome)
            /\ peer' = [peer EXCEPT
                    !.store = PushRelationship(peer.store, from, to, label),
                    !.saved = outcome]
            /\ disk' = save(peer'.store, disk, outcome)
       ELSE /\ outcome = "not_attempted"
            /\ UNCHANGED <<peer, disk>>
    /\ last' = Call("peer.addRelationship", <<from, to, label>>,
                    outcome, Returned("undefined"))
    /\ ops' = ops + 1
    /\ UNCHANGED <<store, origin, snap, twitter>>

(***************************************************************************)
(* The Twitter plugin (twitter/index.js).  Numbers are written as their    *)
(* digits ("429"), which is also what a template literal prints for them.  *)
(***************************************************************************)
ALL_TOOLS ==
    <<"twitter_search_tweets", "twitter_get_user", "twitter_get_timeline",
      "twitter_get_mentions", "twitter_get_home_feed", "twitter_like_tweet",
      "twitter_retweet", "twitter_post_tweet", "twitter_reply_to_tweet",
      "twitter_follow_user">>

\* TIER_TOOL_NAMES: its own keys, and the value of each; null means all.
TierKeys == {"free", "basic"}
TIER_TOOL_NAMES(tier) ==
    IF tier = "free"
    THEN [null |-> FALSE,
          names |-> <<"twitter_post_tweet", "twitter_reply_to_tweet">>]
    ELSE [null |-> TRUE, names |-> <<>>]

\* Values of the environment variable TWITTER_API_TIER; Undefined is unset.
TierValues ==
    {Undefined, "free", "basic", "FREE", "Basic", "enterprise", "",
     "constructor"}

\* String.prototype.toLowerCase on the values above.
ToLowerCase(s) ==
    CASE s = "FREE" -> "free"
      [] s = "Basic" -> "basic"
      [] OTHER -> s

Includes(names, name) == \E i \in 1..Len(names) : names[i] = name

\* Faulty variant: an unset variable selects the free tier.
toolsDefaultFree(env) ==
    LET tier == ToLowerCase(IF env = Undefined THEN "free" ELSE env)
        enabledNames == IF tier \in TierKeys THEN TIER_TOOL_NAMES(tier)
                        ELSE [null |-> TRUE, names |-> <<>>]
        enabled(name) == Includes(enabledNames.names, name)
    IN IF ~enabledNames.null THEN SelectSeq(ALL_TOOLS, enabled)
       ELSE ALL_TOOLS

\* The exported `tools`, as the names of the tools in it.
tools(env) ==
    LET tier == ToLowerCase(IF env = Undefined THEN "basic" ELSE env)
        enabledNames == IF tier \in TierKeys THEN TIER_TOOL_NAMES(tier)
                        ELSE [null |-> TRUE, names |-> <<>>]
        enabled(name) == Includes(enabledNames.names, name)
    IN IF ~enabledNames.null THEN SelectSeq(ALL_TOOLS, enabled)
       ELSE ALL_TOOLS

NotImported == [imported |-> FALSE, env |-> Undefined, tools |-> <<>>]

\* The plugin is imported (again, as after resetModules) under `env`.
ImportTwitter(env) ==
    /\ twitter' = [imported |-> TRUE, env |-> env, tools |-> tools(env)]
    /\ last' = Call("twitter.import", <<env>>, "not_attempted",
                    Returned("undefined"))
    /\ UNCHANGED <<store, disk, origin, snap, peer, ops>>

\* What getClient() or a call of the API client throws: an object with some
\* of the properties code, message, rateLimit.reset and data.detail, or a
\* value that is not an object.
Codes == {Undefined, "0", "402", "403", "429"}
Messages == {Undefined, "", "boom"}
Resets == {Undefined, "0", "1700000000"}
Details == {Undefined, "No credits."}

\* rateLimit comes with a 429 response and data.detail with a 402 response.
ThrownObjects ==
    {e \in [type : {"object"}, code : Codes, message : Messages,
            reset : Resets, detail : Details] :
        /\ e.reset # Undefined => e.code = "429"
        /\ e.detail # Undefined => e.code = "402"}

ThrownPrimitives ==
    [type : {"string", "undefined", "null"}, code : {Undefined},
     message : {Undefined}, reset : {Undefined}, detail : {Undefined}]

Thrown == ThrownObjects \cup ThrownPrimitives

\* err?.name : undefined for a value that has no such property.
Prop(err, name) == IF err.type = "object" THEN err[name] ELSE Undefined

\* Truthiness of a property value: undefined, '' and 0 are falsy.
IsTruthy(v) == v \notin {Undefined, "", "0"}

\* new Date(reset * 1000).toISOString()
ToISOString(reset) ==
    CASE reset = "1700000000" -> "2023-11-14T22:13:20.000Z"
      [] reset = "0" -> "1970-01-01T00:00:00.000Z"

\* String(err) for a thrown value without a message.
String(err) ==
    CASE err.type = "object" -> "[object Object]"
      [] err.type = "string" -> "thrown text"
      [] err.type = "undefined" -> "undefined"
      [] err.type = "null" -> "null"

\* Faulty variant: the generic branch is tried before the 429 and the 402
\* branch.
handleErrorGenericFirst(err) ==
    IF IsTruthy(Prop(err, "code")) /\ IsTruthy(Prop(err, "message"))
    THEN <<"Twitter API error ", Prop(err, "code"), ": ",
           Prop(err, "message")>>
    ELSE IF Prop(err, "code") = "429"
    THEN <<"Rate limited by Twitter. Resets at: ",
           IF IsTruthy(Prop(err, "reset"))
           THEN ToISOString(Prop(err, "reset")) ELSE "unknown">>
    ELSE IF Prop(err, "code") = "402"
    THEN <<"Twitter credits depleted (402): ",
           IF Prop(err, "detail") = Undefined
           THEN "Monthly write credits exhausted." ELSE Prop(err, "detail"),
           " Upgrade to Basic tier or wait for monthly reset.">>
    ELSE <<"Error: ",
           IF Prop(err, "message") = Undefined THEN String(err)
           ELSE Prop(err, "message")>>

handleError(err) ==
    IF Prop(err, "code") = "429"
    THEN <<"Rate limited by Twitter. Resets at: ",
           IF IsTruthy(Prop(err, "reset"))
           THEN ToISOString(Prop(err, "reset")) ELSE "unknown">>
    ELSE IF Prop(err, "code") = "402"
    THEN <<"Twitter credits depleted (402): ",
           IF Prop(err, "detail") = Undefined
           THEN "Monthly write credits exhausted." ELSE Prop(err, "detail"),
           " Upgrade to Basic tier or wait for monthly reset.">>
    ELSE IF IsTruthy(Prop(err, "code")) /\ IsTruthy(Prop(err, "message"))
    THEN <<"Twitter API error ", Prop(err, "code"), ": ",
           Prop(err, "message")>>
    ELSE <<"Error: ",
           IF Prop(err, "message") = Undefined THEN String(err)
           ELSE Prop(err, "message")>>

\* The calls that the body of each tool's execute makes inside its try
\* block, in order.
CallsOf(tool) ==
    CASE tool = "twitter_search_tweets" -> <<"getClient", "v2.search">>
      [] tool = "twitter_get_user" -> <<"getClient", "v2.userByUsername">>
      [] tool = "twitter_get_timeline" ->
            <<"getClient", "v2.userByUsername", "v2.userTimeline">>
      [] tool = "twitter_get_mentions" ->
            <<"getClient", "v2.me", "v2.userMentionTimeline">>
      [] tool = "twitter_get_home_feed" ->
            <<"getClient", "v2.me", "v2.homeTimeline">>
      [] tool = "twitter_like_tweet" -> <<"getClient", "v2.me", "v2.like">>
      [] tool = "twitter_retweet" -> <<"getClient", "v2.me", "v2.retweet">>
      [] tool = "twitter_post_tweet" -> <<"getClient", "v2.tweet">>
      [] tool = "twitter_reply_to_tweet" -> <<"getClient", "v2.reply">>
      [] tool = "twitter_follow_user" ->
            <<"getClient", "v2.me", "v2.userByUsername", "v2.follow">>

\* tool.execute(args) when the call numbered `at` throws `err`: the catch
\* of the body returns handleError(err).
executeThrowing(tool, at, err) == Async(Returned(handleError(err)))

ExecuteThrowing(tool, at, err) ==
    /\ twitter.imported
    /\ Includes(twitter.tools, tool)
    /\ at \in 1..Len(CallsOf(tool))
    /\ last' = Call(tool, <<CallsOf(tool)[at], err>>, "not_attempted",
                    executeThrowing(tool, at, err))
    /\ UNCHANGED <<store, disk, origin, snap, peer, twitter, ops>>

(***************************************************************************)
(* Specification                                                           *)
(***************************************************************************)
Init ==
    /\ disk \in InitialDisks
    /\ store = load(disk)
    /\ origin = Started(store)
    /\ last = Call("import", <<>>, "not_attempted", Returned("undefined"))
    /\ snap = NoSnapshot
    /\ peer = NoPeer
    /\ twitter = NotImported
    /\ ops = 0

Next ==
    \/ \E name \in Keys, label \in Labels, description \in Descriptions,
          external \in ExternalArgs,
          outcome \in SaveOutcomes \cup {"not_attempted"} :
          addSystem(name, label, description, external, outcome)
    \/ \E name \in Keys, label \in Labels,
          description \in PersonDescriptionArgs,
          outcome \in SaveOutcomes \cup {"not_attempted"} :
          addPerson(name, label, description, outcome)
    \/ \E from \in Ends, to \in Ends, label \in Labels,
          outcome \in SaveOutcomes \cup {"not_attempted"} :
          addRelationship(from, to, label, outcome)
    \/ Import
    \/ GetArchitectureData
    \/ GetArchitectureAsText
    \/ \E args \in Arguments : GenerateDiagram(args)
    \/ \E place \in Mutations : MutateSnapshot(place)

Spec == Init /\ [][Next]_vars

\* Two processes that imported the store from the same file.
InitShared ==
    /\ disk \in InitialDisks
    /\ store = load(disk)
    /\ origin = Started(store)
    /\ last = Call("import", <<>>, "not_attempted", Returned("undefined"))
    /\ snap = NoSnapshot
    /\ peer = PeerStarted(disk)
    /\ twitter = NotImported
    /\ ops = 0

NextShared ==
    \/ \E name \in Keys, label \in Labels,
          outcome \in SaveOutcomes \cup {"not_attempted"} :
          addSystem(name, label, "D1", "false", outcome)
    \/ \E name \in Keys,
          outcome \in SaveOutcomes \cup {"not_attempted"} :
          addPerson(name, "L2", Undefined, outcome)
    \/ \E from \in Ends, to \in Ends,
          outcome \in SaveOutcomes \cup {"not_attempted"} :
          addRelationship(from, to, "L2", outcome)
    \/ GetArchitectureData
    \/ GetArchitectureAsText
    \/ \E name \in Keys, label \in Labels,
          outcome \in SaveOutcomes \cup {"not_attempted"} :
          PeerAddSystem(name, label, "", "true", outcome)
    \/ \E name \in Keys,
          outcome \in SaveOutcomes \cup {"not_attempted"} :
          PeerAddPerson(name, "L2", "D1", outcome)
    \/ \E from \in Ends, to \in Ends,
          outcome \in SaveOutcomes \cup {"not_attempted"} :
          PeerAddRelationship(from, to, "L2", outcome)

SpecShared == InitShared /\ [][NextShared]_vars

\* A process whose callers also pass descriptions with quote characters and
\* line breaks.
TextDescriptions == {"D1", QuoteBraceText, QuoteText}

NextText ==
    \/ \E name \in Keys, description \in TextDescriptions,
          external \in ExternalArgs, outcome \in {"ok", "not_attempted"} :
          addSystem(name, "L1", description, external, outcome)
    \/ \E name \in Keys, description \in TextDescriptions,
          outcome \in {"ok", "not_attempted"} :
          addPerson(name, "L1", description, outcome)
    \/ \E from \in Ends, to \in Ends, outcome \in {"ok", "not_attempted"} :
          addRelationship(from, to, "L1", outcome)
    \/ \E args \in Arguments : GenerateDiagram(args)

SpecText == Init /\ [][NextText]_vars

\* The Twitter plugin alone: imports under every value of the variable, and
\* executions of the exported tools in which a call throws.
InitTwitter == Init /\ disk = Missing

NextTwitter ==
    \/ \E env \in TierValues : ImportTwitter(env)
    \/ \E tool \in {ALL_TOOLS[i] : i \in 1..Len(ALL_TOOLS)} :
          \E at \in 1..Len(CallsOf(tool)), err \in Thrown :
              ExecuteThrowing(tool, at, err)

SpecTwitter == InitTwitter /\ [][NextTwitter]_vars

(***************************************************************************)
(* Properties                                                              *)
(***************************************************************************)
Mutators == {"addSystem", "addPerson", "addRelationship"}

\* Number of properties of obj named k.
Count(obj, k) == Cardinality({i \in 1..Len(obj) : obj[i].key = k})

\* Number of entries of rels, among the first n, with the pair <<from, to>>.
PairCount(rels, n, from, to) ==
    Cardinality({i \in 1..n : Pair(rels[i]) = <<from, to>>})

\* obj and obj2 agree on every key but k.
SameBut(obj, obj2, k) ==
    \A j \in Keys \ {k} :
        /\ HasOwn(obj2, j) <=> HasOwn(obj, j)
        /\ HasOwn(obj, j) => Get(obj2, j) = Get(obj, j)

C2_AddPersonOverwrites ==
    [][\A k \in Keys, l \in Labels, d \in PersonDescriptionArgs :
        (/\ IsGraph(store)
         /\ last'.op = "addPerson"
         /\ last'.args = <<k, l, d>>)
        => /\ Count(store'.people, k) = 1
           /\ Get(store'.people, k) =
                [label |-> l, description |-> IF d = Undefined THEN "" ELSE d]
           /\ SameBut(store.people, store'.people, k)
      ]_vars

\* C2 witness: the seeded person "a" (L1, D1) was re-added first, with a
\* new label and no description, and its description is now empty.
C2_Witness ==
    /\ ~origin.empty
    /\ ops = 1
    /\ last.op = "addPerson"
    /\ last.args = <<"a", "L2", Undefined>>
    /\ HasOwn(store.people, "a")
    /\ Get(store.people, "a") = [label |-> "L2", description |-> ""]

\* C3: in a process whose store started empty, no two relationships share a
\* (from, to) pair, and a pair is stored exactly when addRelationship was
\* called for it, with the label of the most recent such call.
C3_PairsUniqueLatestLabel ==
    origin.empty =>
        \A p \in Ends \X Ends :
            IF origin.added[p] = Undefined
            THEN PairCount(store.relationships, Len(store.relationships),
                           p[1], p[2]) = 0
            ELSE /\ PairCount(store.relationships, Len(store.relationships),
                              p[1], p[2]) = 1
                 /\ \E i \in 1..Len(store.relationships) :
                        store.relationships[i] =
                            [from |-> p[1], to |-> p[2],
                             label |-> origin.added[p]]

\* C3 witness: on a store that started empty the pair (a, b) was added with
\* L1 and saved, then added again with L2 (that save was refused, so the
\* file still shows the first call); one entry is stored, with L2.
C3_Witness ==
    /\ origin.empty
    /\ last.op = "addRelationship"
    /\ last.args = <<"a", "b", "L2">>
    /\ last.save = "write_denied"
    /\ disk.kind = "file"
    /\ disk.text.relationships = << <<"a", "b", "L1">> >>
    /\ store.relationships = <<[from |-> "a", to |-> "b", label |-> "L2"]>>

\* C4: addRelationship(f, t, l) puts the entry (f, t, l) last; the entries
\* of other pairs stay, in the order they had; the entries of the pair
\* (f, t) that were there are gone, so a new pair makes the collection one
\* longer.
C4_ReAddMovesToEnd ==
    [][\A f \in Ends, t \in Ends, l \in Labels :
        (/\ IsGraph(store)
         /\ last'.op = "addRelationship"
         /\ last'.args = <<f, t, l>>)
        => LET old == store.relationships
               new == store'.relationships
           IN /\ Len(new) = Len(old) - PairCount(old, Len(old), f, t) + 1
              /\ PairCount(old, Len(old), f, t) \in {0, 1}
              /\ new[Len(new)] = [from |-> f, to |-> t, label |-> l]
              /\ \A i \in 1..Len(old) :
                    Pair(old[i]) # <<f, t>>
                    => new[i - PairCount(old, i, f, t)] = old[i]
      ]_vars

\* C4 witness: from the seeded (a, b), (b, a): (a, a) was added, then
\* (a, b) again, which moved it behind (b, a) and (a, a).
C4_Witness ==
    /\ ~origin.empty
    /\ ops = 2
    /\ last.op = "addRelationship"
    /\ last.args = <<"a", "b", "L2">>
    /\ Len(store.relationships) = 3
    /\ Pair(store.relationships[1]) = <<"b", "a">>
    /\ Pair(store.relationships[2]) = <<"a", "a">>
    /\ store.relationships[3] = [from |-> "a", to |-> "b", label |-> "L2"]

\* C5: for f # t, addRelationship(f, t, l) neither removes nor relabels an
\* entry of the reverse pair (t, f): both directions are stored, each with
\* its own label.
C5_DirectionSignificant ==
    [][\A f \in Ends, t \in Ends, l \in Labels :
        (/\ IsGraph(store)
         /\ f # t
         /\ last'.op = "addRelationship"
         /\ last'.args = <<f, t, l>>)
        => LET old == store.relationships
               new == store'.relationships
           IN /\ PairCount(new, Len(new), t, f) = PairCount(old, Len(old), t, f)
              /\ \A i \in 1..Len(old) :
                    Pair(old[i]) = <<t, f>>
                    => \E j \in 1..Len(new) : new[j] = old[i]
              /\ PairCount(new, Len(new), f, t) = 1
      ]_vars

\* C5 witness: on a store that started empty, (a, b, L1) then (b, a, L2)
\* were added and both are stored.
C5_Witness ==
    /\ origin.empty
    /\ last.op = "addRelationship"
    /\ last.args = <<"b", "a", "L2">>
    /\ store.relationships = <<[from |-> "a", to |-> "b", label |-> "L1"],
                               [from |-> "b", to |-> "a", label |-> "L2"]>>

\* A key of a system or of a person.
Known(data, k) == HasOwn(data.systems, k) \/ HasOwn(data.people, k)

\* C6: addRelationship(f, t, l) stores the entry whether or not f and t
\* are keys of a system or a person, and leaves systems and people as they
\* were.
C6_DanglingAcceptedNoNodeChange ==
    [][\A f \in Ends, t \in Ends, l \in Labels :
        (/\ IsGraph(store)
         /\ last'.op = "addRelationship"
         /\ last'.args = <<f, t, l>>)
        => /\ ~last'.result.threw
           /\ \E i \in 1..Len(store'.relationships) :
                store'.relationships[i] = [from |-> f, to |-> t, label |-> l]
           /\ store'.systems = store.systems
           /\ store'.people = store.people
      ]_vars

\* C6 witness: with system and person "a" stored and no "b" anywhere, the
\* relationship (a, b) was added and is stored.
C6_Witness ==
    /\ last.op = "addRelationship"
    /\ last.args = <<"a", "b", "L2">>
    /\ Known(store, "a")
    /\ ~Known(store, "b")
    /\ store.relationships # <<>>
    /\ store.relationships[Len(store.relationships)] =
         [from |-> "a", to |-> "b", label |-> "L2"]

\* C7: a write to any object of a snapshot returned by getArchitectureData()
\* (a container or an entry of systems, people or relationships) leaves the
\* store as it was, so that what getArchitectureData() and
\* getArchitectureAsText() return next is what they returned before the write.
C7_SnapshotIsolation ==
    [][last'.op = "mutateSnapshot"
        => /\ store' = store
           /\ IsGraph(store) =>
                /\ Graph(getArchitectureData(store')) =
                     Graph(getArchitectureData(store))
                /\ getArchitectureAsText(store') = getArchitectureAsText(store)
      ]_vars

\* C7 witness: the label of the first system of a snapshot was overwritten;
\* the snapshot shows MUTATED and a fresh snapshot of the store does not.
C7_Witness ==
    /\ last.op = "mutateSnapshot"
    /\ last.args = <<"systems[]">>
    /\ snap.systems # <<>>
    /\ snap.systems[1].value.label = "MUTATED"
    /\ IsGraph(store)
    /\ Graph(getArchitectureData(store)) # Graph(snap)
    /\ Len(store.systems) = Len(snap.systems)

\* C8: when the last save() of a process wrote the file, a fresh process
\* that imports the store from the same file gets the snapshot the first
\* process had: same keys, same field values, same order of relationships.
C8_RoundTrip ==
    [][(/\ origin.saved = "ok"
        /\ last'.op = "import")
        => /\ IsGraph(store) /\ IsGraph(store')
           /\ Graph(getArchitectureData(store')) =
                Graph(getArchitectureData(store))
      ]_vars

\* C8 witness: a fresh process has imported what the first one wrote after
\* addSystem("1", ..., false) on the seeded graph: the system "1" with
\* external false, and the two relationships in their order.
C8_Witness ==
    /\ ops = 2
    /\ last.op = "import"
    /\ IsGraph(store)
    /\ HasOwn(store.systems, "1")
    /\ Get(store.systems, "1").external = FALSE
    /\ HasOwn(store.systems, "a")
    /\ Len(store.relationships) = 2
    /\ Pair(store.relationships[1]) = <<"a", "b">>

\* The file holds no graph document: it is missing, unreadable, not JSON,
\* or JSON for something that is not a graph.
NoGraphOnDisk(d) ==
    \/ d.kind # "file"
    \/ d.text.syntax # "json"
    \/ ~IsGraph(JSONparse(d.text))

\* C9: when the file is missing, unreadable or malformed at import, the
\* store is the empty graph.
C9_LoadFailureAbsorbed ==
    (last.op = "import" /\ NoGraphOnDisk(disk)) => store = emptyStore

\* C10: when the save() of a mutator fails, the mutator returns normally,
\* the store holds the mutation, and the file is as it was before the call.
C10_PersistFailureAbsorbed ==
    [][(/\ last'.op \in Mutators
        /\ last'.save \in SaveOutcomes \ {"ok"})
        => /\ ~last'.result.threw
           /\ disk' = disk
           /\ last'.op = "addSystem"
                => /\ HasOwn(store'.systems, last'.args[1])
                   /\ Get(store'.systems, last'.args[1]).label = last'.args[2]
           /\ last'.op = "addPerson"
                => /\ HasOwn(store'.people, last'.args[1])
                   /\ Get(store'.people, last'.args[1]).label = last'.args[2]
           /\ last'.op = "addRelationship"
                => /\ store'.relationships # <<>>
                   /\ store'.relationships[Len(store'.relationships)] =
                        [from |-> last'.args[1], to |-> last'.args[2],
                         label |-> last'.args[3]]
      ]_vars

\* C11: a persist is atomic: after every call of a mutator, also one whose
\* write fails part-way, the file holds the complete document it held
\* before the call or the complete document of the new graph, never a
\* partial, truncated or empty one.
C11_PersistAtomic ==
    [][last'.op \in Mutators
        => \/ disk' = disk
           \/ disk' = File(JSONstringify(store'))
      ]_vars

PeerMutators == {"peer.addSystem", "peer.addPerson", "peer.addRelationship"}

Readers == {"getArchitectureData", "getArchitectureAsText"}

\* The three collections of a store.
Collections(data) ==
    [systems |-> data.systems, people |-> data.people,
     relationships |-> data.relationships]

\* C12: the file is read at import only. A write to the file by another
\* process leaves the store of this process as it was; a reader leaves it
\* as it was and returns what is in memory, whatever the file holds by
\* then; a mutator changes only the entry it is called for.
C12_LoadedOnce ==
    [][/\ last'.op \in PeerMutators \cup Readers => store' = store
       /\ (last'.op = "getArchitectureData" /\ ~last'.result.threw)
            => Graph(snap') = Collections(store)
       /\ (last'.op = "getArchitectureAsText" /\ ~last'.result.threw)
            => last'.result.value = getArchitectureAsText(store)
       /\ (last'.op = "addSystem" /\ IsGraph(store))
            => /\ SameBut(store.systems, store'.systems, last'.args[1])
               /\ store'.people = store.people
               /\ store'.relationships = store.relationships
       /\ (last'.op = "addPerson" /\ IsGraph(store))
            => /\ SameBut(store.people, store'.people, last'.args[1])
               /\ store'.systems = store.systems
               /\ store'.relationships = store.relationships
       /\ (last'.op = "addRelationship" /\ IsGraph(store))
            => /\ store'.systems = store.systems
               /\ store'.people = store.people
               /\ \A i \in 1..Len(store'.relationships) - 1 :
                    \E j \in 1..Len(store.relationships) :
                        store'.relationships[i] = store.relationships[j]
      ]_vars

\* C12 witness: the other process added the system "1" and wrote the
\* file; this process then took a snapshot, which shows its own graph,
\* without "1".
C12_Witness ==
    /\ last.op = "getArchitectureData"
    /\ ~last.result.threw
    /\ peer.saved = "ok"
    /\ HasOwn(peer.store.systems, "1")
    /\ disk = File(JSONstringify(peer.store))
    /\ snap.held
    /\ ~HasOwn(snap.systems, "1")
    /\ Graph(snap) = Collections(store)

\* C13: no coordination, the last writer wins: after a save() that wrote
\* the file, the file holds the whole in-memory graph of the process that
\* made the call and nothing else, so what the other process had written
\* since is gone.
C13_LastWriterWins ==
    [][/\ (last'.op \in Mutators /\ last'.save = "ok")
            => /\ disk'.kind = "file" /\ disk'.text.syntax = "json"
               /\ Collections(JSONparse(disk'.text)) = Collections(store')
       /\ (last'.op \in PeerMutators /\ last'.save = "ok")
            => /\ disk'.kind = "file" /\ disk'.text.syntax = "json"
               /\ Collections(JSONparse(disk'.text)) = Collections(peer'.store)
      ]_vars

\* C13 witness: the other process added the system "1" and wrote the
\* file; then this process, which has no "1", made a mutation and wrote
\* the file: "1" is no longer in it.
C13_Witness ==
    /\ ops = 2
    /\ last.op \in Mutators
    /\ last.save = "ok"
    /\ peer.saved = "ok"
    /\ HasOwn(peer.store.systems, "1")
    /\ ~HasOwn(store.systems, "1")
    /\ disk.kind = "file"
    /\ ~HasOwn(JSONparse(disk.text).systems, "1")

AllEmpty(data) ==
    /\ data.systems = <<>>
    /\ data.people = <<>>
    /\ data.relationships = <<>>

\* C14: getArchitectureAsText() returns null if and only if systems, people
\* and relationships are all empty: on every graph the store can hold, and
\* in particular for the call that was made last.
C14_NullIffEmpty ==
    IsGraph(store) =>
        /\ getArchitectureAsText(store).null <=> AllEmpty(store)
        /\ (last.op = "getArchitectureAsText")
             => /\ ~last.result.threw
                /\ last.result.value.null <=> AllEmpty(store)
                /\ last.result.value.null => last.result.value = Null

\* C14 witness: on a store whose only entry is one relationship the call
\* returned a text, not null.
C14_Witness ==
    /\ last.op = "getArchitectureAsText"
    /\ IsGraph(store)
    /\ store.systems = <<>>
    /\ store.people = <<>>
    /\ Len(store.relationships) = 1
    /\ ~last.result.value.null

\* Position of a section title in the fixed order of the sections.
SectionRank(title) ==
    CASE title = "Systems: " -> 1
      [] title = "People: " -> 2
      [] title = "Relationships: " -> 3
      [] OTHER -> 0

HasSection(lines, title) == \E i \in 1..Len(lines) : lines[i][1] = title

\* C15: for a store that is not empty the text has a Systems line iff there
\* is a system, a People line iff there is a person and a Relationships line
\* iff there is a relationship, each whatever the other two, and the lines
\* that are there come in the order Systems, People, Relationships.
C15_SectionsPresentInOrder ==
    (IsGraph(store) /\ ~AllEmpty(store)) =>
        LET lines == getArchitectureAsText(store).lines
        IN /\ HasSection(lines, "Systems: ") <=> store.systems # <<>>
           /\ HasSection(lines, "People: ") <=> store.people # <<>>
           /\ HasSection(lines, "Relationships: ")
                <=> store.relationships # <<>>
           /\ \A i \in 1..Len(lines) : SectionRank(lines[i][1]) > 0
           /\ \A i \in 1..Len(lines), j \in 1..Len(lines) :
                i < j => SectionRank(lines[i][1]) < SectionRank(lines[j][1])
           /\ (last.op = "getArchitectureAsText")
                => last.result.value.lines = lines

\* C15 witness: the call returned a text of one line, the People line, for
\* a store that holds a person and neither a system nor a relationship.
C15_Witness ==
    /\ last.op = "getArchitectureAsText"
    /\ IsGraph(store)
    /\ store.systems = <<>>
    /\ store.people # <<>>
    /\ store.relationships = <<>>
    /\ Len(last.result.value.lines) = 1
    /\ last.result.value.lines[1][1] = "People: "

\* What a line of a diagram declares, read off its fixed text.
Kind(line) ==
    IF line[1] \in {"Person(", "  Person(", "  person "} THEN "person"
    ELSE IF line[1] \in {"System(", "System_Ext(", "  System(",
                         "  System_Ext(", "  system "} THEN "system"
    ELSE IF line[1] \in {"Rel(", "  Rel("} THEN "relationship"
    ELSE IF Len(line) = 7 /\ line[3] = " -> " THEN "relationship"
    ELSE "other"

KindRank(kind) ==
    CASE kind = "person" -> 1
      [] kind = "system" -> 2
      [] kind = "relationship" -> 3
      [] OTHER -> 0

IsKind(kind, line) == Kind(line) = kind

IsPersonLine(line) == IsKind("person", line)
IsSystemLine(line) == IsKind("system", line)
IsRelationshipLine(line) == IsKind("relationship", line)

\* The keys of the person and of the system declarations of a document, and
\* the <<from, to, label>> of its relationship lines, in document order.
PersonKeys(doc) ==
    LET decl == SelectSeq(doc, IsPersonLine)
    IN [i \in 1..Len(decl) |-> decl[i][2]]

SystemKeys(doc) ==
    LET decl == SelectSeq(doc, IsSystemLine)
    IN [i \in 1..Len(decl) |-> decl[i][2]]

RelationshipTriples(doc) ==
    LET decl == SelectSeq(doc, IsRelationshipLine)
    IN [i \in 1..Len(decl) |-> <<decl[i][2], decl[i][4], decl[i][6]>>]

PeopleSystemsRelationships(doc) ==
    \A i \in 1..Len(doc), j \in 1..Len(doc) :
        (i < j /\ Kind(doc[i]) # "other" /\ Kind(doc[j]) # "other")
            => KindRank(Kind(doc[i])) <= KindRank(Kind(doc[j]))

\* The order of declarations after a step, given the order before it: the
\* same, or with the key that the step added for the first time at the end.
FirstAddedOrder(before, after, op) ==
    \/ after = before
    \/ /\ last'.op = op
       /\ \A i \in 1..Len(before) : before[i] # last'.args[1]
       /\ after = Append(before, last'.args[1])

\* C16: in each of the three formats the person declarations come before
\* the system declarations and these before the relationship lines; after
\* every step of a running process the person and the system declarations are in the order they
\* were in before it, a key added for the first time coming last and an
\* overwritten key staying where it was; the relationship lines are in the
\* order of the relationships collection.
C16_DeclarationOrder ==
    [][(IsGraph(store) /\ IsGraph(store')) =>
        \A f \in FormatEnum :
            LET before == generate_diagram(<<f>>, store)
                after == generate_diagram(<<f>>, store')
            IN /\ PeopleSystemsRelationships(after)
               /\ last'.op # "import" =>
                    /\ FirstAddedOrder(PersonKeys(before), PersonKeys(after),
                                       "addPerson")
                    /\ FirstAddedOrder(SystemKeys(before), SystemKeys(after),
                                       "addSystem")
               /\ RelationshipTriples(after) =
                    [i \in 1..Len(store'.relationships) |->
                        <<store'.relationships[i].from,
                          store'.relationships[i].to,
                          store'.relationships[i].label>>]]_vars

ExtHeads == {"System_Ext(", "  System_Ext("}
TagExternal == <<"    tag external">>

\* The line that closes the LikeC4 block opened on line j.
BlockEnd(doc, j) ==
    CHOOSE k \in (j + 1)..Len(doc) :
        /\ doc[k] = <<"  }">>
        /\ \A m \in (j + 1)..(k - 1) : doc[m] # <<"  }">>

Tagged(doc, j) ==
    \E k \in (j + 1)..(BlockEnd(doc, j) - 1) : doc[k] = TagExternal

\* The declarations of `doc` are those of the store's systems, and each is
\* in the external form exactly when `external(j)` says so of line j.
ExternalFormIffFlag(doc, external(_)) ==
    /\ SystemKeys(doc) = [i \in 1..Len(store.systems) |-> store.systems[i].key]
    /\ PersonKeys(doc) = [i \in 1..Len(store.people) |-> store.people[i].key]
    /\ \A j \in 1..Len(doc) :
        /\ IsSystemLine(doc[j]) =>
              (external(j) <=> Get(store.systems, doc[j][2]).external)
        /\ IsPersonLine(doc[j]) => ~external(j)

\* The diagram that the last call returned, a generate_diagram call on a
\* graph, and the format it was rendered in.
Rendered == last.op = "generate_diagram" /\ IsGraph(store)
Diagram == last.result.value
RenderedAs ==
    IF FormatOf(last.args) \in {"mermaid", "likec4"} THEN FormatOf(last.args)
    ELSE "plantuml"

\* C17: in every diagram that generate_diagram returns a system is declared
\* in the external form iff its stored external flag is true: as System_Ext
\* rather than System in PlantUML and Mermaid, and with a 'tag external'
\* line inside its block in LikeC4, where no tag line stands anywhere else;
\* a person is never declared in that form.
C17_ExternalFormIffFlag ==
    Rendered =>
        IF RenderedAs = "likec4"
        THEN /\ ExternalFormIffFlag(Diagram, LAMBDA j : Tagged(Diagram, j))
             /\ Cardinality({k \in 1..Len(Diagram) : Diagram[k] = TagExternal})
                  = Cardinality({i \in 1..Len(store.systems) :
                                    store.systems[i].value.external})
        ELSE /\ ExternalFormIffFlag(Diagram,
                                    LAMBDA j : Diagram[j][1] \in ExtHeads)
             /\ \A k \in 1..Len(Diagram) : Diagram[k] # TagExternal

\* C17 witness: a LikeC4 diagram was generated from a store with an external
\* and an internal system, and it has a tag line.
C17_Witness ==
    /\ last.op = "generate_diagram"
    /\ last.args = <<"likec4">>
    /\ IsGraph(store)
    /\ \E i \in 1..Len(store.systems) : store.systems[i].value.external
    /\ \E i \in 1..Len(store.systems) : ~store.systems[i].value.external
    /\ \E k \in 1..Len(Diagram) : Diagram[k] = TagExternal

\* C18: generate_diagram recognises exactly 'plantuml', 'mermaid' and
\* 'likec4': called with any other format, with no format or with no
\* argument object it returns what it returns for 'plantuml' on the same
\* store, and called with 'mermaid' or 'likec4' on a graph it returns the
\* document of that renderer, which is not the PlantUML one.
C18_FallbackToPlantUML ==
    (last.op = "generate_diagram") =>
        LET plantuml == generate_diagram(<<"plantuml">>, store)
        IN /\ (last.args = <<>> \/ last.args[1] \notin FormatEnum)
                => Diagram = plantuml
           /\ IsGraph(store) =>
                /\ RenderedAs = "plantuml" =>
                     Diagram = generatePlantUML(store.systems, store.people,
                                                store.relationships)
                /\ RenderedAs = "mermaid" =>
                     /\ Diagram = generateMermaid(store.systems, store.people,
                                                  store.relationships)
                     /\ Diagram # plantuml
                /\ RenderedAs = "likec4" =>
                     /\ Diagram = generateLikeC4(store.systems, store.people,
                                                 store.relationships)
                     /\ Diagram # plantuml

\* C18 witness: a call with a format that is not recognised returned the
\* PlantUML document of a store that is not empty.
C18_Witness ==
    /\ last.op = "generate_diagram"
    /\ last.args = <<"svg">>
    /\ IsGraph(store)
    /\ ~AllEmpty(store)
    /\ Diagram[1] = <<"@startuml">>
    /\ Diagram = generate_diagram(<<"plantuml">>, store)

Blank == <<"">>

Occurrences(doc, line) == Cardinality({k \in 1..Len(doc) : doc[k] = line})

Externals(data) ==
    Cardinality({i \in 1..Len(data.systems) : data.systems[i].value.external})

\* `doc` starts with the lines of `header` and ends with those of `footer`.
Framed(doc, header, footer) ==
    /\ Len(doc) >= Len(header) + Len(footer)
    /\ SubSeq(doc, 1, Len(header)) = header
    /\ SubSeq(doc, Len(doc) - Len(footer) + 1, Len(doc)) = footer

\* Nothing in `doc` for a collection that is empty.
NothingForEmpty(doc) ==
    /\ store.people = <<>> => PersonKeys(doc) = <<>>
    /\ store.systems = <<>> => SystemKeys(doc) = <<>>
    /\ store.relationships = <<>> => RelationshipTriples(doc) = <<>>

\* The fixed lines of a format.
HeaderOf(format) ==
    CASE format = "plantuml" -> PlantUMLHeader
      [] format = "mermaid" -> MermaidHeader
      [] format = "likec4" -> LikeC4Header

FooterOf(format) ==
    CASE format = "plantuml" -> PlantUMLFooter
      [] format = "mermaid" -> <<>>
      [] format = "likec4" -> LikeC4Footer

\* C19: the diagram that generate_diagram returns for an empty graph is the
\* fixed lines of the format and nothing else; for any graph it is the fixed
\* lines around one line per person, system and relationship (three or four
\* per block in LikeC4), so that an empty collection contributes no line,
\* and the blank line before the PlantUML relationships is there only when
\* there is a relationship.
C19_NothingForEmptyCollections ==
    Rendered =>
        LET np == Len(store.people)
            ns == Len(store.systems)
            nr == Len(store.relationships)
            separator == IF nr = 0 THEN 0 ELSE 1
        IN /\ AllEmpty(store)
                => Diagram = HeaderOf(RenderedAs) \o FooterOf(RenderedAs)
           /\ Framed(Diagram, HeaderOf(RenderedAs), FooterOf(RenderedAs))
           /\ NothingForEmpty(Diagram)
           /\ RenderedAs = "plantuml" =>
                /\ Len(Diagram) = 7 + np + ns + nr + separator
                /\ Occurrences(Diagram, Blank) = 3 + separator
           /\ RenderedAs = "mermaid" =>
                /\ Len(Diagram) = 1 + np + ns + nr
                /\ Occurrences(Diagram, Blank) = 0
           /\ RenderedAs = "likec4" =>
                /\ Len(Diagram) = 13 + 3 * np + 3 * ns + Externals(store) + nr
                /\ Occurrences(Diagram, Blank) = 2

\* C19 witness: a PlantUML diagram was generated from a store with systems
\* and neither people nor relationships: the fixed lines and one line per
\* system.
C19_Witness ==
    /\ last.op = "generate_diagram"
    /\ last.args = <<"plantuml">>
    /\ IsGraph(store)
    /\ store.systems # <<>>
    /\ store.people = <<>>
    /\ store.relationships = <<>>
    /\ Len(Diagram) = 7 + Len(store.systems)
    /\ Occurrences(Diagram, Blank) = 3

\* A LikeC4 line opens a block when its text ends with '{' and closes one
\* when it is a '}' alone on its line.
Openers == {"specification {", "model {", "views {", "  view index {", "' {"}
Opens(line) == line[Len(line)] \in Openers
Closes(line) == line \in {<<"}">>, <<"  }">>}

RECURSIVE Depth(_, _)
\* The nesting depth after the first n lines of `doc`.
Depth(doc, n) ==
    IF n = 0 THEN 0
    ELSE Depth(doc, n - 1)
         + (IF Opens(doc[n]) THEN 1 ELSE 0)
         - (IF Closes(doc[n]) THEN 1 ELSE 0)

IsTopLevelOpener(doc, j) == Opens(doc[j]) /\ Depth(doc, j - 1) = 0

\* The block-opening lines at depth 0, in document order.
TopLevelBlocks(doc) ==
    LET at == {j \in 1..Len(doc) : IsTopLevelOpener(doc, j)}
        nth(n) == CHOOSE j \in at : Cardinality({m \in at : m < j}) = n - 1
    IN [n \in 1..Cardinality(at) |-> doc[nth(n)]]

\* The line that closes the block opened on line j: the first line after it
\* where the depth is back to what it was before j.
ClosedAt(doc, j) ==
    CHOOSE k \in (j + 1)..Len(doc) :
        /\ Depth(doc, k) = Depth(doc, j - 1)
        /\ \A m \in j..(k - 1) : Depth(doc, m) > Depth(doc, j - 1)

\* C20: every LikeC4 document that generate_diagram returns has as many
\* block-opening as block-closing lines, its nesting depth is never negative
\* and is zero at the end, its top-level blocks are specification, model and
\* views, once each and in that order, and every person and system block
\* opens at depth one inside the model block and closes before the model
\* block does.
C20_LikeC4Balanced ==
    (Rendered /\ RenderedAs = "likec4") =>
        LET model == CHOOSE j \in 1..Len(Diagram) : Diagram[j] = <<"model {">>
        IN /\ Cardinality({j \in 1..Len(Diagram) : Opens(Diagram[j])})
                = Cardinality({j \in 1..Len(Diagram) : Closes(Diagram[j])})
           /\ \A n \in 0..Len(Diagram) : Depth(Diagram, n) >= 0
           /\ Depth(Diagram, Len(Diagram)) = 0
           /\ TopLevelBlocks(Diagram)
                = << <<"specification {">>, <<"model {">>, <<"views {">> >>
           /\ \A j \in 1..Len(Diagram) :
                (IsPersonLine(Diagram[j]) \/ IsSystemLine(Diagram[j])) =>
                    /\ Opens(Diagram[j])
                    /\ Depth(Diagram, j - 1) = 1
                    /\ model < j
                    /\ ClosedAt(Diagram, j) < ClosedAt(Diagram, model)
                    /\ Diagram[ClosedAt(Diagram, j)] = <<"  }">>
           /\ Cardinality({j \in 1..Len(Diagram) :
                              IsPersonLine(Diagram[j])
                              \/ IsSystemLine(Diagram[j])})
                = Len(store.people) + Len(store.systems)

\* What the declaration on line j of a diagram says: the key, the label and
\* the description (on the next line in LikeC4), and for a system whether it
\* is in the external form.
DeclaredPerson(doc, j) ==
    [key |-> doc[j][2],
     value |-> [label |-> doc[j][4],
                description |-> IF RenderedAs = "likec4" THEN doc[j + 1][2]
                                ELSE doc[j][6]]]

DeclaredSystem(doc, j) ==
    [key |-> doc[j][2],
     value |-> [label |-> doc[j][4],
                description |-> IF RenderedAs = "likec4" THEN doc[j + 1][2]
                                ELSE doc[j][6],
                external |-> IF RenderedAs = "likec4" THEN Tagged(doc, j)
                             ELSE doc[j][1] \in ExtHeads]]

DeclaredRelationship(doc, j) ==
    [from |-> doc[j][2], to |-> doc[j][4], label |-> doc[j][6]]

\* The lines of a diagram that are declarations of one kind, in order.
LinesOfKind(doc, kind) ==
    LET at == {j \in 1..Len(doc) : Kind(doc[j]) = kind}
        nth(n) == CHOOSE j \in at : Cardinality({m \in at : m < j}) = n - 1
    IN [n \in 1..Cardinality(at) |-> nth(n)]

\* C21: every diagram that generate_diagram returns declares exactly the
\* stored people, the stored systems (each in the form its external flag
\* asks for) and the stored relationships, with their keys, labels and
\* descriptions: one declaration for each of them and no other.
C21_OneDeclarationPerEntry ==
    Rendered =>
        LET p == LinesOfKind(Diagram, "person")
            s == LinesOfKind(Diagram, "system")
            r == LinesOfKind(Diagram, "relationship")
        IN /\ [i \in 1..Len(p) |-> DeclaredPerson(Diagram, p[i])]
                = store.people
           /\ [i \in 1..Len(s) |-> DeclaredSystem(Diagram, s[i])]
                = store.systems
           /\ [i \in 1..Len(r) |-> DeclaredRelationship(Diagram, r[i])]
                = store.relationships

\* C21 witness: a Mermaid diagram was generated from a store with a person,
\* an internal system, an external system and two relationships, and it has
\* a Person, a System, a System_Ext and two Rel lines.
C21_Witness ==
    /\ Rendered
    /\ RenderedAs = "mermaid"
    /\ Len(store.people) = 1
    /\ Len(store.systems) = 2
    /\ Externals(store) = 1
    /\ Len(store.relationships) = 2
    /\ Len(LinesOfKind(Diagram, "person")) = 1
    /\ Len(LinesOfKind(Diagram, "system")) = 2
    /\ Cardinality({j \in 1..Len(Diagram) : Diagram[j][1] \in ExtHeads}) = 1
    /\ Len(LinesOfKind(Diagram, "relationship")) = 2

\* The text of the error string starts every document generate_diagram
\* returns from a store that is not a graph.
IsErrorText(doc) ==
    /\ Len(doc) = 1
    /\ Len(doc[1]) = 2
    /\ doc[1][1] = "Error generating diagram: "

\* C22: whatever the store and the file are like, a mutator call returns
\* without throwing, so that the remember_* tool around it resolves to
\* 'Noted.', with a failed write and with a store that is not a graph too;
\* and generate_diagram resolves to the string it returned, a diagram for a
\* graph and the error text otherwise.
C22_ToolsNeverReject ==
    /\ last.op \in Mutators =>
          /\ ~last.result.threw
          /\ remember(last.result) = Resolved("Noted.")
    /\ last.op = "generate_diagram" =>
          /\ generate_diagramExecute(last.args, store).settled = "resolved"
          /\ generate_diagramExecute(last.args, store).value = Diagram
          /\ IsGraph(store) => ~IsErrorText(Diagram)
          /\ ~IsGraph(store) => IsErrorText(Diagram)

\* C22 witness: generate_diagram was called on a store that load() returned
\* without its collections and resolved to the error text.
C22_Witness ==
    /\ last.op = "generate_diagram"
    /\ ~IsGraph(store)
    /\ generate_diagramExecute(last.args, store).settled = "resolved"
    /\ IsErrorText(Diagram)

RECURSIVE IsSubsequence(_, _)
\* s is t with some of its elements left out.
IsSubsequence(s, t) ==
    IF s = <<>> THEN TRUE
    ELSE IF t = <<>> THEN FALSE
    ELSE IF Head(s) = Head(t) THEN IsSubsequence(Tail(s), Tail(t))
    ELSE IsSubsequence(s, Tail(t))

\* C23: what the Twitter plugin exports is fixed by TWITTER_API_TIER: under
\* 'free' (in any capitalisation) exactly twitter_post_tweet and
\* twitter_reply_to_tweet, in that order; under 'basic', with the variable
\* unset and under any other value the ten tools in the order they are
\* declared; and always a sub-sequence of the full list.
C23_TierFixesTools ==
    twitter.imported =>
        /\ twitter.env \in {"free", "FREE"} =>
              twitter.tools = <<"twitter_post_tweet", "twitter_reply_to_tweet">>
        /\ twitter.env \notin {"free", "FREE"} =>
              /\ Len(twitter.tools) = 10
              /\ twitter.tools = ALL_TOOLS
        /\ IsSubsequence(twitter.tools, ALL_TOOLS)

\* C23 witness: the plugin was imported under 'free' and exports two tools.
C23_Witness ==
    /\ twitter.imported
    /\ twitter.env = "free"
    /\ Len(twitter.tools) = 2

TwitterCall == twitter.imported /\ Includes(ALL_TOOLS, last.op)
ThrownError == last.args[2]

C25_OneWholeWritePerMutation ==
    [][(last'.op \in Mutators /\ IsGraph(store)) =>
         /\ last'.save \in SaveOutcomes
         /\ IsGraph(store')
         /\ last'.op = "addSystem" => HasOwn(store'.systems, last'.args[1])
         /\ last'.op = "addPerson" => HasOwn(store'.people, last'.args[1])
         /\ last'.op = "addRelationship" =>
              PairCount(store'.relationships, Len(store'.relationships),
                        last'.args[1], last'.args[2]) = 1
         /\ last'.save = "ok" =>
              /\ disk' = File(JSONstringify(store'))
              /\ Collections(load(disk')) = Collections(store')
         /\ last'.save \in {"mkdir_failed", "write_denied"} => disk' = disk
         /\ last'.save = "write_truncated" =>
              /\ disk' # File(JSONstringify(store'))
              /\ load(disk') = emptyStore
      ]_vars

\* C25 witness: addRelationship returned after a successful write, and the
\* file holds the three relationships that are in memory.
C25_Witness ==
    /\ last.op = "addRelationship"
    /\ last.save = "ok"
    /\ IsGraph(store)
    /\ Len(store.relationships) = 3
    /\ disk = File(JSONstringify(store))
    /\ Len(load(disk).relationships) = 3

\* The character that delimits a string literal in a format.
QuoteOf(format) == IF format = "likec4" THEN "'" ELSE "\""

\* The label and description texts that the declaration on line j carries.
TextsOf(doc, j) ==
    IF Kind(doc[j]) = "relationship" THEN {doc[j][6]}
    ELSE IF RenderedAs = "likec4" THEN {doc[j][4], doc[j + 1][2]}
    ELSE {doc[j][4], doc[j][6]}

\* C26: in every diagram the label and the description of each declaration
\* stand between two quote characters of the format and hold no such
\* character without a backslash before it, so that the text cannot end the
\* literal.
C26_QuotesEscaped ==
    Rendered =>
        \A j \in 1..Len(Diagram) :
            Kind(Diagram[j]) # "other" =>
                \A text \in TextsOf(Diagram, j) :
                    QuoteOf(RenderedAs) \notin UnescapedQuotes(text)

AllReaders == Readers \cup {"generate_diagram"}

\* C27: getArchitectureData, getArchitectureAsText and generate_diagram, in
\* each format, change neither the store nor the file; and a reader called
\* again with the same arguments right after its own call returns what it
\* returned then.
C27_ReadersChangeNothing ==
    [][last'.op \in AllReaders =>
         /\ store' = store
         /\ disk' = disk
         /\ origin' = origin
         /\ (last.op = last'.op /\ last.args = last'.args) =>
              /\ last'.result = last.result
              /\ snap' = snap
      ]_vars

\* C27 witness: two readers were called on the seeded graph, the second one
\* generate_diagram for LikeC4, and the store is still what the file holds,
\* which nobody has written.
C27_Witness ==
    /\ ops = 2
    /\ last.op = "generate_diagram"
    /\ last.args = <<"likec4">>
    /\ origin.saved = "none"
    /\ IsGraph(store)
    /\ ~AllEmpty(store)
    /\ disk = File(JSONstringify(store))

RECURSIVE SplitAt(_, _)
\* The entries of a line: the runs of pieces between the separators.
SplitAt(pieces, sep) ==
    IF \A i \in 1..Len(pieces) : pieces[i] # sep THEN <<pieces>>
    ELSE LET n == CHOOSE i \in 1..Len(pieces) :
                      /\ pieces[i] = sep
                      /\ \A j \in 1..(i - 1) : pieces[j] # sep
         IN <<SubSeq(pieces, 1, n - 1)>>
            \o SplitAt(SubSeq(pieces, n + 1, Len(pieces)), sep)

\* C28: in the text getArchitectureAsText returns the entries of a line are
\* separated by ' | ' and stand in stored order; a system entry is its
\* label, ' (external)' or ' (internal)', the dash and its description, the
\* dash being there when the description is empty too; a person entry is
\* the label alone when the description is empty and the label, the dash and
\* the description otherwise; a relationship entry is from, the arrow, to
\* and the label between double quotes.
C28_EntryFormats ==
    (last.op = "getArchitectureAsText" /\ IsGraph(store)
     /\ ~AllEmpty(store)) =>
        \A k \in 1..Len(last.result.value.lines) :
            LET line == last.result.value.lines[k]
                entries == SplitAt(Tail(line), " | ")
            IN /\ line[1] = "Systems: " =>
                    /\ Len(entries) = Len(store.systems)
                    /\ \A i \in 1..Len(entries) :
                        LET s == store.systems[i].value
                        IN entries[i] =
                             <<s.label, " (",
                               IF s.external THEN "external" ELSE "internal",
                               ") -- ", s.description>>
               /\ line[1] = "People: " =>
                    /\ Len(entries) = Len(store.people)
                    /\ \A i \in 1..Len(entries) :
                        LET p == store.people[i].value
                        IN /\ p.description = "" => entries[i] = <<p.label>>
                           /\ p.description # "" =>
                                entries[i] =
                                  <<p.label, " -- ", p.description>>
               /\ line[1] = "Relationships: " =>
                    /\ Len(entries) = Len(store.relationships)
                    /\ \A i \in 1..Len(entries) :
                        LET r == store.relationships[i]
                        IN entries[i] =
                             <<r.from, " -> ", r.to, " \"", r.label, "\"">>

\* C28 witness: the text of a store with two systems, one of them with an
\* empty description, was returned: its Systems line has two entries and
\* ends with the dash and the empty description.
C28_Witness ==
    /\ last.op = "getArchitectureAsText"
    /\ IsGraph(store)
    /\ Len(store.systems) = 2
    /\ \E i \in 1..2 : store.systems[i].value.description = ""
    /\ \E i \in 1..2 : store.systems[i].value.description # ""
    /\ Len(SplitAt(Tail(last.result.value.lines[1]), " | ")) = 2

\* What the call c leaves in a graph: the entry it wrote, under its key.
EffectIn(data, c) ==
    CASE c.op = "addSystem" ->
            /\ HasOwn(data.systems, c.args[1])
            /\ Get(data.systems, c.args[1]) =
                 [label |-> c.args[2], description |-> c.args[3],
                  external |-> ToBoolean(Default(c.args[4], "false"))]
      [] c.op = "addPerson" ->
            /\ HasOwn(data.people, c.args[1])
            /\ Get(data.people, c.args[1]) =
                 [label |-> c.args[2],
                  description |-> Default(c.args[3], "")]
      [] c.op = "addRelationship" ->
            \E i \in 1..Len(data.relationships) :
                data.relationships[i] =
                    [from |-> c.args[1], to |-> c.args[2],
                     label |-> c.args[3]]
      [] OTHER -> FALSE

\* The call c wrote the entry that the call b had written.
Superseded(b, c) ==
    /\ b.op = c.op
    /\ b.args[1] = c.args[1]
    /\ b.op = "addRelationship" => b.args[2] = c.args[2]

\* C29: when a save() of this process has failed and the save() of a later
\* mutator writes the file, the file holds the whole graph in memory; when
\* the failed save() was that of the call just before, the file holds the
\* entry of that call (unless the later call replaced it) and the entry of
\* the later call.
C29_DurabilityCatchesUp ==
    [][(/\ origin.failed
        /\ last'.op \in Mutators
        /\ last'.save = "ok")
        => /\ disk' = File(JSONstringify(store'))
           /\ Collections(load(disk')) = Collections(store')
           /\ EffectIn(load(disk'), last')
           /\ (last.op \in Mutators /\ last.save \in SaveOutcomes \ {"ok"})
                => \/ Superseded(last, last')
                   \/ EffectIn(load(disk'), last)
      ]_vars

\* C29 witness: on an empty store with no file, one mutator's save() failed,
\* the next mutator's save() wrote the file, and the file holds a system
\* and a person.
C29_Witness ==
    /\ ops = 2
    /\ origin.empty
    /\ origin.failed
    /\ last.op = "addPerson"
    /\ last.save = "ok"
    /\ disk.kind = "file"
    /\ Len(load(disk).systems) = 1
    /\ Len(load(disk).people) = 1

KeysOf(obj) == {obj[i].key : i \in 1..Len(obj)}

PairsOf(rels) == {Pair(rels[i]) : i \in 1..Len(rels)}

\* The pairs addRelationship was called for since the process started.
PairsAdded == {p \in Ends \X Ends : origin.added[p] # Undefined}

\* C30: within one process no step removes a system key, a person key or a
\* relationship pair from the store, and on a store that started empty the
\* number of relationships is the number of distinct pairs added so far.
C30_StoreOnlyGrows ==
    [][/\ last'.op # "import"
          => /\ KeysOf(store.systems) \subseteq KeysOf(store'.systems)
             /\ KeysOf(store.people) \subseteq KeysOf(store'.people)
             /\ PairsOf(store.relationships)
                    \subseteq PairsOf(store'.relationships)
       /\ origin'.empty
          => Len(store'.relationships) = Cardinality(PairsAdded')
      ]_vars

\* C30 witness: on the seeded graph the system "1" was added and the pair
\* (a, b) was added again: the filter removed its entry and the push put it
\* back at the end, and every key and pair of the seed is still there.
C30_Witness ==
    /\ ops = 2
    /\ ~origin.empty
    /\ last.op = "addRelationship"
    /\ KeysOf(store.systems) = {"1", "a"}
    /\ KeysOf(store.people) = {"a"}
    /\ store.relationships = <<[from |-> "b", to |-> "a", label |-> "L1"],
                               [from |-> "a", to |-> "b", label |-> "L2"]>>

====
